---- MODULE Spec2Model ----
(***************************************************************************)
(* Model of src/src/handeye_calibration.cpp: the interactive capture /     *)
(* undo / finalize session of main(), the load-from-file branch of main(), *)
(* the pair-file writer and reader, and the batch derivation of            *)
(* estimateHandEye.                                                        *)
(*                                                                         *)
(* Poses are 4x4 homogeneous matrices with integer entries: a rotation     *)
(* about z by a multiple of a quarter turn and an integer translation.     *)
(* Axis-angle vectors are held in units of a quarter turn.                 *)
(*                                                                         *)
(* A std::vector is a record [elems, under]: elems is its contents and     *)
(* under counts how far below begin() the end pointer stands after         *)
(* pop_back() on an empty vector (undefined behaviour).  size_t values are *)
(* held as residues: the residue -k stands for 2^64 - k.                   *)
(***************************************************************************)
EXTENDS Integers, Sequences, FiniteSets, TLC

\* ------------------------------------------------------------------ bounds
MaxPairs == 3
MaxUnder == 1
MaxLoad == 2
MaxLen == 2
MaxBatch == 3
MaxRuns == 2

\* ------------------------------------------------- Eigen::Affine3d algebra
Idx == 1..4

\* tf::transformTFToEigen of a transform that turns q quarter turns about z
\* and translates by (x, y, z).
transformTFToEigen(q, x, y, z) ==
    LET c == CASE q = 0 -> 1 [] q = 1 -> 0 [] q = 2 -> -1 [] OTHER -> 0
        s == CASE q = 0 -> 0 [] q = 1 -> 1 [] q = 2 -> 0 [] OTHER -> -1
    IN  << <<c, -s, 0, x>>,
           <<s,  c, 0, y>>,
           <<0,  0, 1, z>>,
           <<0,  0, 0, 1>> >>

\* A global Eigen::Affine3d before its first assignment (static storage).
ZeroAffine == [i \in Idx |-> [j \in Idx |-> 0]]

\* operator* of two Affine3d.
Mul(A, B) ==
    [i \in Idx |-> [j \in Idx |->
        A[i][1] * B[1][j] + A[i][2] * B[2][j] + A[i][3] * B[3][j] + A[i][4] * B[4][j]]]

Det3(A) ==
      A[1][1] * (A[2][2] * A[3][3] - A[2][3] * A[3][2])
    - A[1][2] * (A[2][1] * A[3][3] - A[2][3] * A[3][1])
    + A[1][3] * (A[2][1] * A[3][2] - A[2][2] * A[3][1])

\* Entry (i, j) of the adjugate of the linear part of A.
Adj3(A, i, j) ==
    LET r1 == IF j = 1 THEN 2 ELSE 1
        r2 == IF j = 3 THEN 2 ELSE 3
        c1 == IF i = 1 THEN 2 ELSE 1
        c2 == IF i = 3 THEN 2 ELSE 3
        minor == A[r1][c1] * A[r2][c2] - A[r1][c2] * A[r2][c1]
    IN  IF (i + j) % 2 = 0 THEN minor ELSE 0 - minor

\* Affine3d::inverse(): the inverse of the linear part, the translation
\* -inverse * t, and the last row (0 0 0 1).  Exact on rotations (Det3 = 1).
Inverse(A) ==
    LET d == Det3(A)
        L == [i \in 1..3 |-> [j \in 1..3 |-> Adj3(A, i, j) \div d]]
        t == [i \in 1..3 |-> 0 - (L[i][1] * A[1][4] + L[i][2] * A[2][4] + L[i][3] * A[3][4])]
    IN  [i \in Idx |-> [j \in Idx |->
            IF i = 4 THEN (IF j = 4 THEN 1 ELSE 0)
            ELSE IF j = 4 THEN t[i] ELSE L[i][j]]]

\* Affine3d::translation().
translation(A) == <<A[1][4], A[2][4], A[3][4]>>

\* angle() * axis() of the AngleAxisd built from the rotation part, in
\* quarter turns: the angle lies in [0, pi], the axis is +z or -z.
eigenRotToEigenVector3dAngleAxis(A) ==
    CASE A[1][1] = 1  -> <<0, 0, 0>>
      [] A[2][1] = 1  -> <<0, 0, 1>>
      [] A[1][1] = -1 -> <<0, 0, 2>>
      [] OTHER        -> <<0, 0, -1>>

\* ------------------------------------------------------------- std::vector
Vec(s) == [elems |-> s, under |-> 0]

EmptyVec == Vec(<< >>)

\* vector::size(), as a residue of size_t.
size(v) == IF v.under = 0 THEN Len(v.elems) ELSE 0 - v.under

\* a < b for two size_t values held as residues.
SizeLess(a, b) ==
    IF a >= 0 THEN (b < 0 \/ a < b) ELSE (b < 0 /\ a < b)

\* What a build does with undefined behaviour on a vector: trap (library
\* assertions, a fault on an unmapped address) or go on with the end pointer
\* moved.
UBOutcomes == {"trap", "wrap"}

\* vector::pop_back().  On an empty vector the end pointer is decremented
\* below begin() unless the build traps.
pop_back(v, ub) ==
    IF v.under = 0 /\ Len(v.elems) > 0
    THEN [v |-> Vec(SubSeq(v.elems, 1, Len(v.elems) - 1)), crash |-> FALSE]
    ELSE IF ub = "trap"
         THEN [v |-> v, crash |-> TRUE]
         ELSE [v |-> [elems |-> v.elems, under |-> v.under + 1], crash |-> FALSE]

\* vector::push_back().  With the end pointer below begin() the element is
\* written outside the buffer and the end pointer advances, or the write
\* faults.
push_back(v, x, ub) ==
    IF v.under = 0
    THEN [v |-> Vec(Append(v.elems, x)), crash |-> FALSE]
    ELSE IF ub = "trap"
         THEN [v |-> v, crash |-> TRUE]
         ELSE [v |-> [elems |-> v.elems, under |-> v.under - 1], crash |-> FALSE]

\* Runs vector statements in program order on the record G of vectors and
\* stops at the first one that traps.
RECURSIVE RunVectorOps(_, _, _)
RunVectorOps(G, ops, ub) ==
    IF ops = << >> \/ G.crash
    THEN G
    ELSE LET op == Head(ops)
             r  == IF op.kind = "push"
                   THEN push_back(G[op.vec], op.x, ub)
                   ELSE pop_back(G[op.vec], ub)
         IN  RunVectorOps(IF r.crash
                          THEN [G EXCEPT !.crash = TRUE]
                          ELSE [G EXCEPT ![op.vec] = r.v],
                          Tail(ops), ub)

Push(vec, x) == [kind |-> "push", vec |-> vec, x |-> x]

Pop(vec) == [kind |-> "pop", vec |-> vec, x |-> 0]

\* ----------------------------------------------------- cv::FileStorage I/O
\* The text FileStorage writes for a double, and the double parsed from it.
doubleToString(v) == [neg |-> v < 0, digits |-> IF v < 0 THEN 0 - v ELSE v]

stringToDouble(t) == IF t.neg THEN 0 - t.digits ELSE t.digits

\* cv::eigen2cv: the 4x4 matrix copied into a row-major cv::Mat_<double>.
eigen2cv(M) == [k \in 1..16 |-> M[((k - 1) \div 4) + 1][((k - 1) % 4) + 1]]

\* cv::cv2eigen: a row-major cv::Mat_<double> copied into a 4x4 matrix.
cv2eigen(data) == [i \in Idx |-> [j \in Idx |-> data[(i - 1) * 4 + j]]]

\* fs << name << mat, and fs[name] >> mat.
writeMat(data) == [rows |-> 4, cols |-> 4, data |-> [k \in 1..16 |-> doubleToString(data[k])]]

readMat(node) == [k \in 1..16 |-> stringToDouble(node.data[k])]

\* ss << "T1_" << i.
NodeName(stream, i) == <<stream, i>>

\* A file that cannot be opened.
NoFile == [exists |-> FALSE, frameCount |-> 0, nodes |-> << >>]

\* One pass of the writer's loop body: frame i (0-based) of both streams.
writeFrame_copyPaste(nodes, i, m1, m2) ==
    (NodeName("T1", i) :> writeMat(eigen2cv(m1))) @@
    (NodeName("T2", i) :> writeMat(eigen2cv(m1))) @@ nodes

writeFrame(nodes, i, m1, m2) ==
    (NodeName("T1", i) :> writeMat(eigen2cv(m1))) @@
    (NodeName("T2", i) :> writeMat(eigen2cv(m2))) @@ nodes

RECURSIVE writeLoop(_, _, _, _)
writeLoop(nodes, i, t1, t2) ==
    IF i >= Len(t1.elems)
    THEN nodes
    ELSE writeLoop(writeFrame(nodes, i, t1.elems[i + 1], t2.elems[i + 1]), i + 1, t1, t2)

\* writeTransformPairsToFile(t1, t2, filename): old is the file's previous
\* content, canOpen whether it opens for writing.  The loop runs while
\* i < t1.size() and reads *t1_it and *t2_it: with t1's size wrapped, or t2
\* shorter than t1, it reads outside the vectors until the process faults.
writeTransformPairsToFile(t1, t2, canOpen, old) ==
    LET frameCount == size(t1)
    IN  IF ~canOpen
        THEN [rc |-> 1, file |-> old, crash |-> FALSE]
        ELSE IF t1.under > 0
                \/ (IF t2.under > 0 THEN 0 ELSE Len(t2.elems)) < Len(t1.elems)
             THEN [rc |-> 0,
                   file |-> [exists |-> TRUE, frameCount |-> frameCount, nodes |-> << >>],
                   crash |-> TRUE]
             ELSE [rc |-> 0,
                   file |-> [exists |-> TRUE, frameCount |-> frameCount,
                             nodes |-> writeLoop(<< >>, 0, t1, t2)],
                   crash |-> FALSE]

\* One pass of the reader's loop body: frame i appended to both outputs.
RECURSIVE readLoop(_, _, _, _)
readLoop(file, i, t1, t2) ==
    IF i >= file.frameCount
    THEN [rc |-> 0, t1 |-> t1, t2 |-> t2, crash |-> FALSE]
    ELSE IF ~({NodeName("T1", i), NodeName("T2", i)} \subseteq DOMAIN file.nodes)
         THEN [rc |-> 0, t1 |-> t1, t2 |-> t2, crash |-> TRUE]
         ELSE readLoop(file, i + 1,
                       Vec(Append(t1.elems, cv2eigen(readMat(file.nodes[NodeName("T1", i)])))),
                       Vec(Append(t2.elems, cv2eigen(readMat(file.nodes[NodeName("T2", i)])))))

\* readTransformPairsFromFile(filename, t1, t2): the frames are appended to
\* t1 and t2 through back_inserters.
readTransformPairsFromFile(file, t1, t2) ==
    IF ~file.exists
    THEN [rc |-> 1, t1 |-> t1, t2 |-> t2, crash |-> FALSE]
    ELSE readLoop(file, 0, t1, t2)

\* -------------------------------------------------------- estimateHandEye
\* The locals of estimateHandEye before its loop.
EstimateLocals ==
    [firstTransform |-> TRUE, firstEEInverse |-> ZeroAffine, firstCamInverse |-> ZeroAffine,
     rvecsArm |-> << >>, tvecsArm |-> << >>, rvecsFiducial |-> << >>, tvecsFiducial |-> << >>]

\* One pass of the loop of estimateHandEye on the pair (eigenEE, eigenCam).
estimateStep_relativeToPrevious(L, eigenEE, eigenCam) ==
    IF L.firstTransform
    THEN [L EXCEPT !.firstEEInverse = Inverse(eigenEE),
                   !.firstCamInverse = Inverse(eigenCam),
                   !.firstTransform = FALSE]
    ELSE LET robotTipinFirstTipBase == Mul(L.firstEEInverse, eigenEE)
             fiducialInFirstFiducialBase == Mul(L.firstCamInverse, eigenCam)
         IN  [L EXCEPT
                !.firstEEInverse = Inverse(eigenEE),
                !.firstCamInverse = Inverse(eigenCam),
                !.rvecsArm = Append(@, eigenRotToEigenVector3dAngleAxis(robotTipinFirstTipBase)),
                !.tvecsArm = Append(@, translation(robotTipinFirstTipBase)),
                !.rvecsFiducial = Append(@, eigenRotToEigenVector3dAngleAxis(fiducialInFirstFiducialBase)),
                !.tvecsFiducial = Append(@, translation(fiducialInFirstFiducialBase))]

estimateStep(L, eigenEE, eigenCam) ==
    IF L.firstTransform
    THEN [L EXCEPT !.firstEEInverse = Inverse(eigenEE),
                   !.firstCamInverse = Inverse(eigenCam),
                   !.firstTransform = FALSE]
    ELSE LET robotTipinFirstTipBase == Mul(L.firstEEInverse, eigenEE)
             fiducialInFirstFiducialBase == Mul(L.firstCamInverse, eigenCam)
         IN  [L EXCEPT
                !.rvecsArm = Append(@, eigenRotToEigenVector3dAngleAxis(robotTipinFirstTipBase)),
                !.tvecsArm = Append(@, translation(robotTipinFirstTipBase)),
                !.rvecsFiducial = Append(@, eigenRotToEigenVector3dAngleAxis(fiducialInFirstFiducialBase)),
                !.tvecsFiducial = Append(@, translation(fiducialInFirstFiducialBase))]

RECURSIVE estimateLoop(_, _, _, _)
estimateLoop(L, i, t1, t2) ==
    IF i >= Len(t1)
    THEN L
    ELSE estimateLoop(estimateStep(L, t1[i + 1], t2[i + 1]), i + 1, t1, t2)

\* The relative motions estimateHandEye hands to estimateHandEyeScrew for the
\* pose sequences baseToTip and camToTag (sequences of equal length).
estimateHandEye(t1, t2) ==
    LET L == estimateLoop(EstimateLocals, 0, t1, t2)
    IN  [rvecsArm |-> L.rvecsArm, tvecsArm |-> L.tvecsArm,
         rvecsFiducial |-> L.rvecsFiducial, tvecsFiducial |-> L.tvecsFiducial]

\* A call of estimateHandEye while the globals are G: the arguments are
\* const references and firstEEInverse, firstCamInverse, firstTransform and
\* the four lists it uses are locals that hide the globals of the same name,
\* so the call hands back G, t1 and t2 as they were.
estimateHandEyeCall_shared(G, t1, t2) ==
    LET L == estimateLoop([EstimateLocals EXCEPT !.firstTransform = G.firstTransform,
                                                 !.firstEEInverse = G.firstEEInverse,
                                                 !.firstCamInverse = G.firstCamInverse],
                          0, t1, t2)
    IN  [globals |-> [G EXCEPT !.firstTransform = L.firstTransform,
                               !.firstEEInverse = L.firstEEInverse,
                               !.firstCamInverse = L.firstCamInverse],
         t1 |-> t1, t2 |-> t2,
         out |-> [rvecsArm |-> L.rvecsArm, tvecsArm |-> L.tvecsArm,
                  rvecsFiducial |-> L.rvecsFiducial, tvecsFiducial |-> L.tvecsFiducial]]

estimateHandEyeCall(G, t1, t2) ==
    [globals |-> G, t1 |-> t1, t2 |-> t2, out |-> estimateHandEye(t1, t2)]

\* ------------------------------------------------------------------- state
VARIABLES
    pc,                      \* where main() stands: start, loop, done, aborted
    loadTransformsFromFile,  \* the parameter load_transforms_from_file
    loadFile,                \* content of transformPairsLoadFile
    recordFile,              \* content of transformPairsRecordFile
    calibFile,               \* content of calibratedTransformFile
    key,                     \* the last key read by getch()
    console,                 \* what the last handler printed and called, in order
    baseToTip, cameraToTag,
    rvecsArm, tvecsArm, rvecsFiducial, tvecsFiducial,
    firstTransform, firstEEInverse, firstCamInverse,
    estimatorCalls,          \* the calls of estimateHandEyeScrew so far
    prevBaseToTip, prevCameraToTag,  \* the store before the last key was handled
    rt,                      \* a write of two pose lists followed by a read
    dv                       \* runs of estimateHandEye on two pose lists

vars ==
    <<pc, loadTransformsFromFile, loadFile, recordFile, calibFile, key, console,
      baseToTip, cameraToTag, rvecsArm, tvecsArm, rvecsFiducial, tvecsFiducial,
      firstTransform, firstEEInverse, firstCamInverse, estimatorCalls,
      prevBaseToTip, prevCameraToTag, rt, dv>>

session ==
    <<pc, loadTransformsFromFile, loadFile, recordFile, calibFile, key, console,
      baseToTip, cameraToTag, rvecsArm, tvecsArm, rvecsFiducial, tvecsFiducial,
      firstTransform, firstEEInverse, firstCamInverse, estimatorCalls,
      prevBaseToTip, prevCameraToTag>>

\* What the transform listener can return for the two lookups of one capture
\* (quarter turns about z, then x, y, z).
Lookups ==
    {[EE |-> <<1, 1, 0, 0>>, Cam |-> <<0, 0, 0, 1>>],
     [EE |-> <<2, 0, 1, 0>>, Cam |-> <<1, 2, 0, 0>>]}

\* The pose pairs a session can have stored.
PosePairs ==
    {[EE |-> transformTFToEigen(l.EE[1], l.EE[2], l.EE[3], l.EE[4]),
      Cam |-> transformTFToEigen(l.Cam[1], l.Cam[2], l.Cam[3], l.Cam[4])] : l \in Lookups}

Poses == {p.EE : p \in PosePairs} \cup {p.Cam : p \in PosePairs}

SeqsUpTo(S, n) == UNION {[1..k -> S] : k \in 0..n}

\* rvecsArm.size() < 5 in the finalize branch.
MinTransformPairs == 5

\* The six global vectors and the reference, as the handlers see them.
Globals ==
    [baseToTip |-> baseToTip, cameraToTag |-> cameraToTag,
     rvecsArm |-> rvecsArm, tvecsArm |-> tvecsArm,
     rvecsFiducial |-> rvecsFiducial, tvecsFiducial |-> tvecsFiducial,
     firstTransform |-> firstTransform,
     firstEEInverse |-> firstEEInverse, firstCamInverse |-> firstCamInverse,
     console |-> << >>, crash |-> FALSE]

\* ---------------------------------------------------------------- addFrame
\* addFrame(): hasEE and hasCam are the results of the two waitForTransform
\* calls, EETransform and CamTransform what lookupTransform returned.
addFrame(G, hasEE, hasCam, EETransform, CamTransform, ub) ==
    LET warnings ==
            (IF hasCam THEN << >> ELSE <<"WARN Fail to Cam TF transform">>) \o
            (IF hasEE THEN << >> ELSE <<"WARN Fail to EE TF transform">>)
        eigenEE == transformTFToEigen(EETransform[1], EETransform[2], EETransform[3], EETransform[4])
        eigenCam == transformTFToEigen(CamTransform[1], CamTransform[2], CamTransform[3], CamTransform[4])
        G1 == RunVectorOps(G, <<Push("baseToTip", eigenEE), Push("cameraToTag", eigenCam)>>, ub)
        robotTipinFirstTipBase == Mul(G.firstEEInverse, eigenEE)
        fiducialInFirstFiducialBase == Mul(G.firstCamInverse, eigenCam)
    IN  IF hasEE /\ hasCam
        THEN IF G1.crash
             THEN G1
             ELSE IF G.firstTransform
                  THEN [G1 EXCEPT !.firstEEInverse = Inverse(eigenEE),
                                  !.firstCamInverse = Inverse(eigenCam),
                                  !.firstTransform = FALSE,
                                  !.console = <<"Adding First Transform">>]
                  ELSE RunVectorOps(
                         [G1 EXCEPT !.console = <<"Adding Transform">>],
                         <<Push("rvecsArm", eigenRotToEigenVector3dAngleAxis(robotTipinFirstTipBase)),
                           Push("tvecsArm", translation(robotTipinFirstTipBase)),
                           Push("rvecsFiducial", eigenRotToEigenVector3dAngleAxis(fiducialInFirstFiducialBase)),
                           Push("tvecsFiducial", translation(fiducialInFirstFiducialBase))>>,
                         ub)
        ELSE [G EXCEPT !.console = warnings \o <<"WARN Fail to get one/both of needed TF transform">>]

\* ---------------------------------------------------------------- main
\* A list of pose pairs as written by an earlier session, or no file.
LoadFiles ==
    {NoFile} \cup
    {writeTransformPairsToFile(Vec([k \in DOMAIN ps |-> ps[k].EE]),
                               Vec([k \in DOMAIN ps |-> ps[k].Cam]), TRUE, NoFile).file :
        ps \in SeqsUpTo(PosePairs, MaxLoad)}

DvIdle ==
    [runs |-> 0, t1 |-> << >>, t2 |-> << >>,
     out |-> [rvecsArm |-> << >>, tvecsArm |-> << >>,
              rvecsFiducial |-> << >>, tvecsFiducial |-> << >>]]

RtIdle ==
    [stage |-> "idle", t1 |-> EmptyVec, t2 |-> EmptyVec, file |-> NoFile,
     wrc |-> 0, out1 |-> EmptyVec, out2 |-> EmptyVec, rrc |-> 0]

\* The globals and main()'s locals before main() reads its parameters.
InitGlobals ==
    /\ pc = "start"
    /\ recordFile = NoFile
    /\ calibFile = "absent"
    /\ key = "none"
    /\ console = << >>
    /\ baseToTip = EmptyVec
    /\ cameraToTag = EmptyVec
    /\ rvecsArm = EmptyVec
    /\ tvecsArm = EmptyVec
    /\ rvecsFiducial = EmptyVec
    /\ tvecsFiducial = EmptyVec
    /\ firstTransform = TRUE
    /\ firstEEInverse = ZeroAffine
    /\ firstCamInverse = ZeroAffine
    /\ estimatorCalls = << >>
    /\ prevBaseToTip = EmptyVec
    /\ prevCameraToTag = EmptyVec

Init ==
    /\ InitGlobals
    /\ loadTransformsFromFile \in BOOLEAN
    /\ loadFile \in (IF loadTransformsFromFile THEN LoadFiles ELSE {NoFile})
    /\ rt = RtIdle
    /\ dv = DvIdle

\* Sets the globals from a handler's result.
SetGlobals(G) ==
    /\ baseToTip' = G.baseToTip
    /\ cameraToTag' = G.cameraToTag
    /\ rvecsArm' = G.rvecsArm
    /\ tvecsArm' = G.tvecsArm
    /\ rvecsFiducial' = G.rvecsFiducial
    /\ tvecsFiducial' = G.tvecsFiducial
    /\ firstTransform' = G.firstTransform
    /\ firstEEInverse' = G.firstEEInverse
    /\ firstCamInverse' = G.firstCamInverse

Remember ==
    /\ prevBaseToTip' = baseToTip
    /\ prevCameraToTag' = cameraToTag

InsufficientWarning == "WARN Number of calibration transform pairs < 5"

Printed(out, line) == \E k \in 1..Len(out) : out[k] = line

\* main() with load_transforms_from_file set: read the pairs, estimate,
\* write the calibration.
LoadFromFile ==
    /\ pc = "start"
    /\ loadTransformsFromFile
    /\ LET r == readTransformPairsFromFile(loadFile, EmptyVec, EmptyVec)
           c == estimateHandEyeCall(Globals, r.t1.elems, r.t2.elems)
           m == c.out
           out == IF r.rc = 1 THEN <<"failed to open input file">> ELSE << >>
       IN  IF r.crash
           THEN /\ pc' = "aborted"
                /\ console' = out
                /\ UNCHANGED <<estimatorCalls, calibFile>>
                /\ SetGlobals(Globals)
           ELSE /\ pc' = "done"
                /\ SetGlobals(c.globals)
                /\ estimatorCalls' = Append(estimatorCalls,
                       [caller |-> "estimateHandEye",
                        rvecsArm |-> Vec(m.rvecsArm), tvecsArm |-> Vec(m.tvecsArm),
                        rvecsFiducial |-> Vec(m.rvecsFiducial),
                        tvecsFiducial |-> Vec(m.tvecsFiducial),
                        warned |-> Printed(out, InsufficientWarning)])
                /\ console' = out \o <<"estimateHandEyeScrew", "reportCalibration", "writeCalibration">>
                /\ \E canOpen \in BOOLEAN :
                       calibFile' = IF canOpen THEN "written" ELSE calibFile
    /\ UNCHANGED <<loadTransformsFromFile, loadFile, recordFile, key,
                   prevBaseToTip, prevCameraToTag, rt, dv>>

\* main() without it: create the listener and enter the key loop.
EnterLoop ==
    /\ pc = "start"
    /\ ~loadTransformsFromFile
    /\ pc' = "loop"
    /\ UNCHANGED <<loadTransformsFromFile, loadFile, recordFile, calibFile, key, console,
                   baseToTip, cameraToTag, rvecsArm, tvecsArm, rvecsFiducial, tvecsFiducial,
                   firstTransform, firstEEInverse, firstCamInverse, estimatorCalls,
                   prevBaseToTip, prevCameraToTag, rt, dv>>

\* Key 's': addFrame(), then writeTransformPairsToFile of the store.
Capture_writeFirst(hasEE, hasCam, EETransform, CamTransform, canOpen, ub) ==
    /\ pc = "loop"
    /\ Len(baseToTip.elems) < MaxPairs
    /\ key' = "s"
    /\ Remember
    /\ LET w == writeTransformPairsToFile(baseToTip, cameraToTag, canOpen, recordFile)
           G == addFrame(Globals, hasEE, hasCam, EETransform, CamTransform, ub)
       IN  /\ SetGlobals(G)
           /\ pc' = IF w.crash \/ G.crash THEN "aborted" ELSE "loop"
           /\ console' = <<"Writing pairs">> \o
                  (IF w.rc = 1 THEN <<"failed to open output file">> ELSE << >>) \o
                  (IF w.crash THEN << >> ELSE G.console)
           /\ recordFile' = w.file
    /\ UNCHANGED <<loadTransformsFromFile, loadFile, calibFile, estimatorCalls, rt, dv>>

Capture_rollback(hasEE, hasCam, EETransform, CamTransform, canOpen, ub) ==
    /\ pc = "loop"
    /\ Len(baseToTip.elems) < MaxPairs
    /\ key' = "s"
    /\ Remember
    /\ LET G == addFrame(Globals, hasEE, hasCam, EETransform, CamTransform, ub)
           w == writeTransformPairsToFile(G.baseToTip, G.cameraToTag, canOpen, recordFile)
       IN  /\ SetGlobals(IF ~G.crash /\ w.rc = 1 THEN Globals ELSE G)
           /\ IF G.crash
              THEN /\ pc' = "aborted"
                   /\ console' = G.console
                   /\ recordFile' = recordFile
              ELSE /\ pc' = IF w.crash THEN "aborted" ELSE "loop"
                   /\ console' = G.console \o <<"Writing pairs">> \o
                          (IF w.rc = 1 THEN <<"failed to open output file">> ELSE << >>)
                   /\ recordFile' = w.file
    /\ UNCHANGED <<loadTransformsFromFile, loadFile, calibFile, estimatorCalls, rt, dv>>

Capture(hasEE, hasCam, EETransform, CamTransform, canOpen, ub) ==
    /\ pc = "loop"
    /\ Len(baseToTip.elems) < MaxPairs
    /\ key' = "s"
    /\ Remember
    /\ LET G == addFrame(Globals, hasEE, hasCam, EETransform, CamTransform, ub)
           w == writeTransformPairsToFile(G.baseToTip, G.cameraToTag, canOpen, recordFile)
       IN  /\ SetGlobals(G)
           /\ IF G.crash
              THEN /\ pc' = "aborted"
                   /\ console' = G.console
                   /\ recordFile' = recordFile
              ELSE /\ pc' = IF w.crash THEN "aborted" ELSE "loop"
                   /\ console' = G.console \o <<"Writing pairs">> \o
                          (IF w.rc = 1 THEN <<"failed to open output file">> ELSE << >>)
                   /\ recordFile' = w.file
    /\ UNCHANGED <<loadTransformsFromFile, loadFile, calibFile, estimatorCalls, rt, dv>>

KeyS ==
    \E hasEE \in BOOLEAN, hasCam \in BOOLEAN, l \in Lookups,
       canOpen \in BOOLEAN, ub \in UBOutcomes :
        Capture(hasEE, hasCam, l.EE, l.Cam, canOpen, ub)

\* Key 'd': the six pop_back calls, in the order of the code.
Undo_fivePops(ub) ==
    /\ pc = "loop"
    /\ baseToTip.under < MaxUnder
    /\ rvecsArm.under < MaxUnder
    /\ key' = "d"
    /\ Remember
    /\ LET G == RunVectorOps(
                    [Globals EXCEPT !.console = <<"INFO Deleted last frame transformation">>],
                    <<Pop("rvecsArm"), Pop("tvecsArm"), Pop("rvecsFiducial"),
                      Pop("tvecsFiducial"), Pop("baseToTip")>>,
                    ub)
       IN  /\ SetGlobals(G)
           /\ console' = G.console
           /\ pc' = IF G.crash THEN "aborted" ELSE "loop"
    /\ UNCHANGED <<loadTransformsFromFile, loadFile, recordFile, calibFile, estimatorCalls, rt, dv>>

Undo_rewritesFile(ub) ==
    /\ pc = "loop"
    /\ baseToTip.under < MaxUnder
    /\ rvecsArm.under < MaxUnder
    /\ key' = "d"
    /\ Remember
    /\ LET G == RunVectorOps(
                    [Globals EXCEPT !.console = <<"INFO Deleted last frame transformation">>],
                    <<Pop("rvecsArm"), Pop("tvecsArm"), Pop("rvecsFiducial"),
                      Pop("tvecsFiducial"), Pop("baseToTip"), Pop("cameraToTag")>>,
                    ub)
       IN  /\ SetGlobals(G)
           /\ console' = G.console
           /\ recordFile' = writeTransformPairsToFile(G.baseToTip, G.cameraToTag, TRUE, recordFile).file
           /\ pc' = IF G.crash THEN "aborted" ELSE "loop"
    /\ UNCHANGED <<loadTransformsFromFile, loadFile, calibFile, estimatorCalls, rt, dv>>

Undo(ub) ==
    /\ pc = "loop"
    /\ baseToTip.under < MaxUnder
    /\ rvecsArm.under < MaxUnder
    /\ key' = "d"
    /\ Remember
    /\ LET G == RunVectorOps(
                    [Globals EXCEPT !.console = <<"INFO Deleted last frame transformation">>],
                    <<Pop("rvecsArm"), Pop("tvecsArm"), Pop("rvecsFiducial"),
                      Pop("tvecsFiducial"), Pop("baseToTip"), Pop("cameraToTag")>>,
                    ub)
       IN  /\ SetGlobals(G)
           /\ console' = G.console
           /\ pc' = IF G.crash THEN "aborted" ELSE "loop"
    /\ UNCHANGED <<loadTransformsFromFile, loadFile, recordFile, calibFile, estimatorCalls, rt, dv>>

KeyD == \E ub \in UBOutcomes : Undo(ub)

\* Key 'q': warn below five relative motions, estimate, report, write, leave
\* the loop.  estimateHandEyeScrew walks the four lists up to their size():
\* with a wrapped size it reads outside them and the process faults.
Finalize_noBreak(canOpen) ==
    /\ pc = "loop"
    /\ key' = "q"
    /\ Remember
    /\ LET out == IF SizeLess(size(rvecsArm), MinTransformPairs)
                  THEN <<InsufficientWarning, "INFO Node Quit">>
                  ELSE << >>
           wrapped == rvecsArm.under > 0 \/ tvecsArm.under > 0
                      \/ rvecsFiducial.under > 0 \/ tvecsFiducial.under > 0
       IN  /\ estimatorCalls' = Append(estimatorCalls,
                   [caller |-> "main",
                    rvecsArm |-> rvecsArm, tvecsArm |-> tvecsArm,
                    rvecsFiducial |-> rvecsFiducial, tvecsFiducial |-> tvecsFiducial,
                    warned |-> Printed(out, InsufficientWarning)])
           /\ IF wrapped
              THEN /\ pc' = "aborted"
                   /\ console' = out \o <<"INFO Calculating Calibration", "estimateHandEyeScrew">>
                   /\ calibFile' = calibFile
              ELSE /\ pc' = "loop"
                   /\ console' = out \o <<"INFO Calculating Calibration", "estimateHandEyeScrew",
                                          "reportCalibration", "writeCalibration">>
                   /\ calibFile' = IF canOpen THEN "written" ELSE calibFile
    /\ UNCHANGED <<loadTransformsFromFile, loadFile, recordFile,
                   baseToTip, cameraToTag, rvecsArm, tvecsArm, rvecsFiducial, tvecsFiducial,
                   firstTransform, firstEEInverse, firstCamInverse, rt, dv>>

Finalize(canOpen) ==
    /\ pc = "loop"
    /\ key' = "q"
    /\ Remember
    /\ LET out == IF SizeLess(size(rvecsArm), MinTransformPairs)
                  THEN <<InsufficientWarning, "INFO Node Quit">>
                  ELSE << >>
           wrapped == rvecsArm.under > 0 \/ tvecsArm.under > 0
                      \/ rvecsFiducial.under > 0 \/ tvecsFiducial.under > 0
       IN  /\ estimatorCalls' = Append(estimatorCalls,
                   [caller |-> "main",
                    rvecsArm |-> rvecsArm, tvecsArm |-> tvecsArm,
                    rvecsFiducial |-> rvecsFiducial, tvecsFiducial |-> tvecsFiducial,
                    warned |-> Printed(out, InsufficientWarning)])
           /\ IF wrapped
              THEN /\ pc' = "aborted"
                   /\ console' = out \o <<"INFO Calculating Calibration", "estimateHandEyeScrew">>
                   /\ calibFile' = calibFile
              ELSE /\ pc' = "done"
                   /\ console' = out \o <<"INFO Calculating Calibration", "estimateHandEyeScrew",
                                          "reportCalibration", "writeCalibration">>
                   /\ calibFile' = IF canOpen THEN "written" ELSE calibFile
    /\ UNCHANGED <<loadTransformsFromFile, loadFile, recordFile,
                   baseToTip, cameraToTag, rvecsArm, tvecsArm, rvecsFiducial, tvecsFiducial,
                   firstTransform, firstEEInverse, firstCamInverse, rt, dv>>

KeyQ == \E canOpen \in BOOLEAN : Finalize(canOpen)

\* Any other key: it is echoed.
KeyOther ==
    /\ pc = "loop"
    /\ key' = "other"
    /\ Remember
    /\ console' = <<"key pressed">>
    /\ UNCHANGED <<pc, loadTransformsFromFile, loadFile, recordFile, calibFile,
                   baseToTip, cameraToTag, rvecsArm, tvecsArm, rvecsFiducial, tvecsFiducial,
                   firstTransform, firstEEInverse, firstCamInverse, estimatorCalls, rt, dv>>

\* ros::ok() turns false: the loop ends without a calibration.
Shutdown ==
    /\ pc = "loop"
    /\ pc' = "done"
    /\ UNCHANGED <<loadTransformsFromFile, loadFile, recordFile, calibFile, key, console,
                   baseToTip, cameraToTag, rvecsArm, tvecsArm, rvecsFiducial, tvecsFiducial,
                   firstTransform, firstEEInverse, firstCamInverse, estimatorCalls,
                   prevBaseToTip, prevCameraToTag, rt, dv>>

Next ==
    \/ LoadFromFile
    \/ EnterLoop
    \/ KeyS
    \/ KeyD
    \/ KeyQ
    \/ KeyOther
    \/ Shutdown

Spec == Init /\ [][Next]_vars

TypeOK == pc \in {"start", "loop", "done", "aborted"}

\* ------------------------------------- a write followed by a read (pure)
\* Two pose lists of equal length, not yet written.
RtInputs ==
    {[RtIdle EXCEPT !.stage = "init", !.t1 = Vec(a), !.t2 = Vec(b)] :
        a \in SeqsUpTo(Poses, MaxLen),
        b \in SeqsUpTo(Poses, MaxLen)}

InitRoundTrip ==
    /\ InitGlobals
    /\ loadTransformsFromFile = FALSE
    /\ loadFile = NoFile
    /\ rt \in {r \in RtInputs : Len(r.t1.elems) = Len(r.t2.elems)}
    /\ dv = DvIdle

\* writeTransformPairsToFile(t1, t2, filename) on a file that may not open.
RtWrite ==
    /\ rt.stage = "init"
    /\ \E canOpen \in BOOLEAN :
         LET w == writeTransformPairsToFile(rt.t1, rt.t2, canOpen, NoFile)
         IN  rt' = [rt EXCEPT !.stage = IF w.rc = 0 /\ ~w.crash THEN "written" ELSE "failed",
                              !.file = w.file, !.wrc = w.rc]
    /\ UNCHANGED <<session, dv>>

\* readTransformPairsFromFile(filename, out1, out2) with empty out1, out2.
RtRead ==
    /\ rt.stage = "written"
    /\ LET r == readTransformPairsFromFile(rt.file, EmptyVec, EmptyVec)
       IN  rt' = [rt EXCEPT !.stage = IF r.crash THEN "failed" ELSE "read",
                            !.out1 = r.t1, !.out2 = r.t2, !.rrc = r.rc]
    /\ UNCHANGED <<session, dv>>

NextRoundTrip ==
    \/ RtWrite
    \/ RtRead

SpecRoundTrip == InitRoundTrip /\ [][NextRoundTrip]_vars

\* --------------------------------------- runs of estimateHandEye (pure)
\* The globals after the captures ls, all lookups succeeding.
RECURSIVE GlobalsAfter(_, _)
GlobalsAfter(G, ls) ==
    IF ls = << >>
    THEN G
    ELSE GlobalsAfter(addFrame(G, TRUE, TRUE, Head(ls).EE, Head(ls).Cam, "trap"), Tail(ls))

\* Two pose lists of equal length, estimateHandEye not yet run on them.
DvInputs ==
    {[DvIdle EXCEPT !.t1 = [k \in DOMAIN ps |-> ps[k].EE],
                    !.t2 = [k \in DOMAIN ps |-> ps[k].Cam]] :
        ps \in SeqsUpTo(PosePairs, MaxBatch)}

InitDerive ==
    /\ pc = "loop"
    /\ loadTransformsFromFile = FALSE
    /\ loadFile = NoFile
    /\ recordFile = NoFile
    /\ calibFile = "absent"
    /\ key = "none"
    /\ console = << >>
    /\ estimatorCalls = << >>
    /\ prevBaseToTip = EmptyVec
    /\ prevCameraToTag = EmptyVec
    /\ rt = RtIdle
    /\ dv \in DvInputs
    /\ \E ls \in SeqsUpTo(Lookups, MaxLen) :
         LET G == GlobalsAfter([baseToTip |-> EmptyVec, cameraToTag |-> EmptyVec,
                                rvecsArm |-> EmptyVec, tvecsArm |-> EmptyVec,
                                rvecsFiducial |-> EmptyVec, tvecsFiducial |-> EmptyVec,
                                firstTransform |-> TRUE,
                                firstEEInverse |-> ZeroAffine, firstCamInverse |-> ZeroAffine,
                                console |-> << >>, crash |-> FALSE], ls)
         IN  /\ baseToTip = G.baseToTip
             /\ cameraToTag = G.cameraToTag
             /\ rvecsArm = G.rvecsArm
             /\ tvecsArm = G.tvecsArm
             /\ rvecsFiducial = G.rvecsFiducial
             /\ tvecsFiducial = G.tvecsFiducial
             /\ firstTransform = G.firstTransform
             /\ firstEEInverse = G.firstEEInverse
             /\ firstCamInverse = G.firstCamInverse

\* estimateHandEye(t1, t2, summary) up to its call of estimateHandEyeScrew.
DeriveRun ==
    /\ dv.runs < MaxRuns
    /\ LET c == estimateHandEyeCall(Globals, dv.t1, dv.t2)
       IN  /\ SetGlobals(c.globals)
           /\ dv' = [runs |-> dv.runs + 1, t1 |-> c.t1, t2 |-> c.t2, out |-> c.out]
    /\ UNCHANGED <<pc, loadTransformsFromFile, loadFile, recordFile, calibFile, key, console,
                   estimatorCalls, prevBaseToTip, prevCameraToTag, rt>>

NextDerive == DeriveRun

SpecDerive == InitDerive /\ [][NextDerive]_vars

\* ------------------------------------------------------------------ claims
Live == pc \in {"loop", "done"}

MotionLists == <<rvecsArm, tvecsArm, rvecsFiducial, tvecsFiducial>>

\* C1: whenever the store holds N >= 1 pairs, each of rvecsArm, tvecsArm,
\* rvecsFiducial and tvecsFiducial holds exactly N - 1 entries.
C1_MotionCount ==
    (Live /\ size(baseToTip) # 0) =>
        \A k \in 1..4 : size(MotionLists[k]) = size(baseToTip) - 1

\* C2: the relative motions handed to the estimator by a finalize event are
\* those the batch derivation of estimateHandEye produces from the pairs the
\* store holds then: same length, same order, same entries.
C2_IncrementalEqualsBatch ==
    \A k \in DOMAIN estimatorCalls :
        estimatorCalls[k].caller = "main" =>
            LET m == estimateHandEye(baseToTip.elems, cameraToTag.elems)
            IN  /\ estimatorCalls[k].rvecsArm = Vec(m.rvecsArm)
                /\ estimatorCalls[k].tvecsArm = Vec(m.tvecsArm)
                /\ estimatorCalls[k].rvecsFiducial = Vec(m.rvecsFiducial)
                /\ estimatorCalls[k].tvecsFiducial = Vec(m.tvecsFiducial)

\* C3: an undo on the empty store leaves the store and the four relative
\* motion lists unchanged and the session goes on.
C3_UndoOnEmptyIsNoOp ==
    [][\A ub \in UBOutcomes :
          (size(baseToTip) = 0 /\ Undo(ub)) =>
              /\ UNCHANGED <<baseToTip, cameraToTag, rvecsArm, tvecsArm,
                             rvecsFiducial, tvecsFiducial>>
              /\ pc' = "loop"]_vars

CaptureStored ==
    /\ pc = "loop"
    /\ key = "s"
    /\ Printed(console, "Adding First Transform") \/ Printed(console, "Adding Transform")

\* C4: an undo right after a successful capture gives baseToTip and
\* cameraToTag the length and the pairs they had before the capture.
C4_CaptureThenUndoRestores ==
    [][\A ub \in UBOutcomes :
          (CaptureStored /\ Undo(ub)) =>
              /\ baseToTip' = prevBaseToTip
              /\ cameraToTag' = prevCameraToTag]_vars

\* C5: a capture with a failed lookup emits a warning, leaves baseToTip,
\* cameraToTag, the four relative motion lists, firstTransform and the two
\* reference inverses unchanged, and the session goes on.
C5_FailedCaptureDropped ==
    [][\A hasEE \in BOOLEAN, hasCam \in BOOLEAN, l \in Lookups,
          canOpen \in BOOLEAN, ub \in UBOutcomes :
          (~(hasEE /\ hasCam) /\ Capture(hasEE, hasCam, l.EE, l.Cam, canOpen, ub)) =>
              /\ UNCHANGED <<baseToTip, cameraToTag, rvecsArm, tvecsArm,
                             rvecsFiducial, tvecsFiducial,
                             firstTransform, firstEEInverse, firstCamInverse>>
              /\ Printed(console', "WARN Fail to get one/both of needed TF transform")
              /\ pc' = "loop"]_vars

\* C6: with a non-empty store the reference inverses are the inverses of the
\* pair at index 0, and firstTransform is true exactly when the store is
\* empty.
C6_ReferenceIsFirstPair ==
    Live =>
        /\ firstTransform <=> (size(baseToTip) = 0)
        /\ (baseToTip.under = 0 /\ cameraToTag.under = 0 /\ Len(baseToTip.elems) >= 1) =>
               /\ firstEEInverse = Inverse(baseToTip.elems[1])
               /\ firstCamInverse = Inverse(cameraToTag.elems[1])

\* C7: every run of the estimator on zero or one relative motion, on either
\* entry path, has printed the insufficient-data warning first.
C7_FewMotionsAreFlagged ==
    \A k \in DOMAIN estimatorCalls :
        size(estimatorCalls[k].rvecsArm) \in {0, 1} => estimatorCalls[k].warned

\* C8: a finalize event runs the estimator only with at least one relative
\* motion.
C8_FinalizeNeedsAMotion ==
    \A k \in DOMAIN estimatorCalls :
        estimatorCalls[k].caller = "main" => size(estimatorCalls[k].rvecsArm) # 0

\* C9: in load-from-file mode with a pair file that cannot be opened, the
\* estimator is not run and no calibration file is written.
C9_LoadFailureAborts ==
    (loadTransformsFromFile /\ ~loadFile.exists) =>
        /\ estimatorCalls = << >>
        /\ calibFile = "absent"

\* C10: for two pose lists of equal length, a successful write followed by a
\* read into empty lists yields lists of the same length with every T1_i and
\* T2_i equal to the original at index i, and frameCount is that length.
C10_RoundTrip ==
    rt.stage = "read" =>
        /\ rt.rrc = 0
        /\ rt.file.frameCount = Len(rt.t1.elems)
        /\ rt.out1.under = 0 /\ rt.out2.under = 0
        /\ Len(rt.out1.elems) = Len(rt.t1.elems)
        /\ Len(rt.out2.elems) = Len(rt.t2.elems)
        /\ \A i \in 1..Len(rt.t1.elems) :
               rt.out1.elems[i] = rt.t1.elems[i] /\ rt.out2.elems[i] = rt.t2.elems[i]

C10_Witness ==
    /\ rt.stage = "read"
    /\ Len(rt.t1.elems) = MaxLen
    /\ rt.t1.elems[1] # rt.t2.elems[1]
    /\ rt.t1.elems[1] # rt.t1.elems[2]
    /\ rt.out2.elems[1] = rt.t2.elems[1]

\* The motion of pose b relative to pose a, as axis-angle and translation.
RelRot(a, b) == eigenRotToEigenVector3dAngleAxis(Mul(Inverse(a), b))

RelTrans(a, b) == translation(Mul(Inverse(a), b))

\* C11: on N pairs estimateHandEye derives no motion when N = 0 and N - 1
\* motions when N >= 1; motion k (0-based) is pairs[k+1] relative to
\* pairs[0], and pairs[0] gives no motion.
C11_BatchDerivation ==
    dv.runs >= 1 =>
        LET N == Len(dv.t1)
            M == IF N = 0 THEN 0 ELSE N - 1
        IN  /\ Len(dv.out.rvecsArm) = M
            /\ Len(dv.out.tvecsArm) = M
            /\ Len(dv.out.rvecsFiducial) = M
            /\ Len(dv.out.tvecsFiducial) = M
            /\ \A k \in 1..M :
                   /\ dv.out.rvecsArm[k] = RelRot(dv.t1[1], dv.t1[k + 1])
                   /\ dv.out.tvecsArm[k] = RelTrans(dv.t1[1], dv.t1[k + 1])
                   /\ dv.out.rvecsFiducial[k] = RelRot(dv.t2[1], dv.t2[k + 1])
                   /\ dv.out.tvecsFiducial[k] = RelTrans(dv.t2[1], dv.t2[k + 1])

C11_Witness ==
    /\ dv.runs >= 1
    /\ Len(dv.t1) = MaxBatch
    /\ Len(dv.out.rvecsArm) = MaxBatch - 1
    /\ dv.t1[2] # dv.t1[1]
    /\ dv.out.tvecsArm[2] # RelTrans(dv.t1[2], dv.t1[3])

FileHolds(file, t1, t2) ==
    /\ file.exists
    /\ t1.under = 0
    /\ t2.under = 0
    /\ file.frameCount = Len(t1.elems)
    /\ Len(t2.elems) = Len(t1.elems)
    /\ DOMAIN file.nodes =
           {NodeName(st, i) : st \in {"T1", "T2"}, i \in 0..(Len(t1.elems) - 1)}
    /\ \A i \in 0..(Len(t1.elems) - 1) :
           /\ cv2eigen(readMat(file.nodes[NodeName("T1", i)])) = t1.elems[i + 1]
           /\ cv2eigen(readMat(file.nodes[NodeName("T2", i)])) = t2.elems[i + 1]

\* The last event was a capture whose write of the pair file succeeded.
CaptureWrote ==
    /\ Live
    /\ key = "s"
    /\ Printed(console, "Writing pairs")
    /\ ~Printed(console, "failed to open output file")

\* C12: after a capture whose write of the pair file succeeds, the file
\* holds the store as it is after the capture, the pair appended by this
\* capture included: frameCount is the number of stored pairs and T1_i, T2_i
\* are baseToTip[i], cameraToTag[i].
C12_FileHoldsStoreAfterCapture ==
    CaptureWrote => FileHolds(recordFile, baseToTip, cameraToTag)

C12_Witness ==
    /\ CaptureWrote
    /\ CaptureStored
    /\ Len(baseToTip.elems) >= 2
    /\ baseToTip # prevBaseToTip
    /\ recordFile.frameCount = Len(prevBaseToTip.elems) + 1

\* The three calls a finalize makes, in the order of lines 477-483.
FinalizeStages == <<"estimateHandEyeScrew", "reportCalibration", "writeCalibration">>

IsFinalizeStage(line) == \E k \in 1..Len(FinalizeStages) : FinalizeStages[k] = line

\* C13: in the interactive session estimateHandEyeScrew is called at most
\* once and only by the finalize event; the finalize calls the estimator,
\* then reportCalibration, then writeCalibration, in that order, and ends the
\* session, so that no capture or undo follows it.
C13_FinalizeOnceAndLast ==
    ~loadTransformsFromFile =>
        LET calls == SelectSeq(console, IsFinalizeStage)
        IN  /\ Len(estimatorCalls) <= 1
            /\ \A k \in 1..Len(estimatorCalls) : estimatorCalls[k].caller = "main"
            /\ (Len(estimatorCalls) = 1) <=> (key = "q")
            /\ (key = "q") => pc \in {"done", "aborted"}
            /\ (key # "q") => calls = << >>
            /\ Len(calls) <= Len(FinalizeStages)
            /\ \A k \in 1..Len(calls) : calls[k] = FinalizeStages[k]
            /\ (key = "q") => Len(calls) >= 1
            /\ (key = "q" /\ pc = "done") => calls = FinalizeStages

C13_Witness ==
    /\ ~loadTransformsFromFile
    /\ key = "q"
    /\ pc = "done"
    /\ Len(estimatorCalls) = 1
    /\ Len(prevBaseToTip.elems) >= 2
    /\ SelectSeq(console, IsFinalizeStage) = FinalizeStages

\* Pose list b is pose list a left alone, a with one pose appended, or a
\* without its last pose.
StoreStep(a, b) ==
    \/ b = a
    \/ /\ a.under = 0
       /\ b.under = 0
       /\ Len(b.elems) = Len(a.elems) + 1
       /\ SubSeq(b.elems, 1, Len(a.elems)) = a.elems
    \/ /\ a.under = 0
       /\ b.under = 0
       /\ Len(a.elems) >= 1
       /\ b.elems = SubSeq(a.elems, 1, Len(a.elems) - 1)

\* C14: every event leaves baseToTip and cameraToTag as they were, or with
\* exactly one pair appended, or with exactly their last pair removed; no
\* stored pair is reordered or overwritten.
C14_StoreChangesAtEnd ==
    [][/\ StoreStep(baseToTip, baseToTip')
       /\ StoreStep(cameraToTag, cameraToTag')
       /\ (Len(baseToTip'.elems) > Len(baseToTip.elems))
              <=> (Len(cameraToTag'.elems) > Len(cameraToTag.elems))
       /\ (Len(baseToTip'.elems) < Len(baseToTip.elems))
              <=> (Len(cameraToTag'.elems) < Len(cameraToTag.elems))]_vars

\* C15: baseToTip and cameraToTag have the same length and rvecsArm,
\* tvecsArm, rvecsFiducial and tvecsFiducial have the same length; a capture
\* appends to both pose lists or to neither and an undo removes from both.
C15_ListsInLockstep ==
    /\ baseToTip.under = cameraToTag.under
    /\ Len(baseToTip.elems) = Len(cameraToTag.elems)
    /\ \A k \in 2..4 :
           /\ MotionLists[k].under = rvecsArm.under
           /\ Len(MotionLists[k].elems) = Len(rvecsArm.elems)

C15_Witness ==
    /\ pc = "loop"
    /\ key = "d"
    /\ Len(prevBaseToTip.elems) = MaxPairs
    /\ Len(baseToTip.elems) = MaxPairs - 1
    /\ Len(cameraToTag.elems) = MaxPairs - 1
    /\ Len(rvecsArm.elems) = MaxPairs - 2
    /\ Len(tvecsFiducial.elems) = MaxPairs - 2

\* The vector v holds at least one element.
NonEmpty(v) == v.under = 0 /\ Len(v.elems) >= 1

\* C18: an undo never pops an empty list: whenever the undo branch runs,
\* each of the six lists it pops holds at least one element.
C18_UndoNeverPopsEmpty ==
    [][\A ub \in UBOutcomes :
          Undo(ub) =>
              /\ \A k \in 1..4 : NonEmpty(MotionLists[k])
              /\ NonEmpty(baseToTip)
              /\ NonEmpty(cameraToTag)]_vars

\* C19: an undo leaves the pair file as it is: after an undo that follows a
\* written capture the file still holds the store as of that capture, the
\* removed pair included, and the file changes only in a capture.
C19_UndoLeavesFile ==
    [][/\ \A ub \in UBOutcomes :
             Undo(ub) =>
                 /\ recordFile' = recordFile
                 /\ CaptureWrote => FileHolds(recordFile', baseToTip, cameraToTag)
       /\ (recordFile' # recordFile) => (key' = "s")]_vars

C19_Witness ==
    /\ pc = "loop"
    /\ key = "d"
    /\ FileHolds(recordFile, prevBaseToTip, prevCameraToTag)
    /\ Len(prevBaseToTip.elems) >= 2
    /\ Len(baseToTip.elems) = Len(prevBaseToTip.elems) - 1
    /\ baseToTip.under = 0

\* C16: when the pair file cannot be opened during a capture, the write
\* returns 1 and reports it, the file is not touched, baseToTip, cameraToTag,
\* the four relative motion lists and the reference are as addFrame left
\* them, the pair appended by this capture included, and the loop goes on.
C16_WriteFailureKeepsCapture ==
    [][\A hasEE \in BOOLEAN, hasCam \in BOOLEAN, l \in Lookups, ub \in UBOutcomes :
          (Printed(console', "Writing pairs") /\ Capture(hasEE, hasCam, l.EE, l.Cam, FALSE, ub)) =>
              LET G == addFrame(Globals, hasEE, hasCam, l.EE, l.Cam, ub)
                  eigenEE == transformTFToEigen(l.EE[1], l.EE[2], l.EE[3], l.EE[4])
                  eigenCam == transformTFToEigen(l.Cam[1], l.Cam[2], l.Cam[3], l.Cam[4])
              IN  /\ Printed(console', "failed to open output file")
                  /\ recordFile' = recordFile
                  /\ pc' = "loop"
                  /\ baseToTip' = G.baseToTip
                  /\ cameraToTag' = G.cameraToTag
                  /\ <<rvecsArm', tvecsArm', rvecsFiducial', tvecsFiducial'>> =
                         <<G.rvecsArm, G.tvecsArm, G.rvecsFiducial, G.tvecsFiducial>>
                  /\ <<firstTransform', firstEEInverse', firstCamInverse'>> =
                         <<G.firstTransform, G.firstEEInverse, G.firstCamInverse>>
                  /\ (hasEE /\ hasCam /\ baseToTip.under = 0) =>
                         /\ baseToTip' = Vec(Append(baseToTip.elems, eigenEE))
                         /\ cameraToTag' = Vec(Append(cameraToTag.elems, eigenCam))
                         /\ (~firstTransform /\ rvecsArm.under = 0) =>
                                Len(rvecsArm'.elems) = Len(rvecsArm.elems) + 1]_vars

C16_Witness ==
    /\ pc = "loop"
    /\ key = "s"
    /\ CaptureStored
    /\ Printed(console, "failed to open output file")
    /\ Len(baseToTip.elems) = Len(prevBaseToTip.elems) + 1
    /\ Len(baseToTip.elems) >= 2
    /\ recordFile.frameCount < Len(baseToTip.elems)

====
